---- MODULE Spec2Model ----
(***************************************************************************)
(* Model of the formula engine and the allocation sweep of                 *)
(* power-calculator-2.py: calculate_power, calculate_mde,                  *)
(* calculate_sample_size, generate_treatment_comparison_data and the       *)
(* idxmin step of main that reports the optimal treatment percentage.      *)
(*                                                                         *)
(* Python floats are modelled as decimal floating-point numbers with an    *)
(* eight-digit mantissa, every operation rounding to nearest (ties to      *)
(* even), so each arithmetic step of the source is one operator            *)
(* application here.  scipy's norm.ppf and norm.cdf are tabulated.         *)
(***************************************************************************)
EXTENDS Integers, Sequences, FiniteSets, TLC

VARIABLES inp, ret

vars == <<inp, ret>>

----------------------------------------------------------------------------
(* Decimal floating point: [m |-> mantissa, e |-> exponent] is m * 10^e,   *)
(* with m = 0 (and e = 0) or 10^7 <= |m| < 10^8.                           *)

Pow10 == <<10, 100, 1000, 10000, 100000, 1000000, 10000000, 100000000, 1000000000>>

Abs(x) == IF x < 0 THEN -x ELSE x

Sgn(x) == IF x < 0 THEN -1 ELSE IF x > 0 THEN 1 ELSE 0

\* num / den rounded to the nearest integer, ties to the even one (den > 0).
RoundHalfEven(num, den) ==
    LET q == num \div den
        r == num % den
    IN  IF 2 * r < den THEN q
        ELSE IF 2 * r > den THEN q + 1
        ELSE IF q % 2 = 0 THEN q ELSE q + 1

Zero == [m |-> 0, e |-> 0]

RECURSIVE Normalize(_, _)
Normalize(m, e) ==
    IF m = 0 THEN Zero
    ELSE IF Abs(m) >= Pow10[9] THEN Normalize(RoundHalfEven(m, 100), e + 2)
    ELSE IF Abs(m) >= Pow10[8] THEN Normalize(RoundHalfEven(m, 10), e + 1)
    ELSE IF Abs(m) < Pow10[7] THEN Normalize(m * 10, e - 1)
    ELSE [m |-> m, e |-> e]

\* float(n) for a Python int n.
FromInt(n) == Normalize(n, 0)

One == FromInt(1)

FNeg(a) == [m |-> -a.m, e |-> a.e]

\* q, with remainder r out of den behind it, rounded to nearest, ties to even.
RoundRem(q, r, den) ==
    IF 2 * r > den \/ (2 * r = den /\ q % 2 = 1) THEN q + 1 ELSE q

\* a * b: the 16-digit product of the mantissas, by halves of four digits,
\* rounded to eight digits.
FMul(a, b) ==
    IF a.m = 0 \/ b.m = 0 THEN Zero
    ELSE
    LET s   == Sgn(a.m) * Sgn(b.m)
        a1  == Abs(a.m) \div Pow10[4]
        a0  == Abs(a.m) % Pow10[4]
        b1  == Abs(b.m) \div Pow10[4]
        b0  == Abs(b.m) % Pow10[4]
        mid == a1 * b0 + a0 * b1
        low == (mid % Pow10[4]) * Pow10[4] + a0 * b0
        H   == a1 * b1 + mid \div Pow10[4] + low \div Pow10[8]
        L   == low % Pow10[8]
    IN  IF H >= Pow10[7]
        THEN Normalize(s * RoundRem(H, L, Pow10[8]), a.e + b.e + 8)
        ELSE Normalize(s * RoundRem(H * 10 + L \div Pow10[7], L % Pow10[7], Pow10[7]),
                       a.e + b.e + 7)

\* n more decimal digits of r / d behind the quotient q (0 <= r < d).
RECURSIVE DivDigits(_, _, _, _)
DivDigits(q, r, d, n) ==
    IF n = 0 THEN <<q, r>>
    ELSE DivDigits(q * 10 + (r * 10) \div d, (r * 10) % d, d, n - 1)

\* a / b for b # 0: long division to eight significant digits, rounded on
\* the remainder.
FDiv(a, b) ==
    IF a.m = 0 THEN Zero
    ELSE
    LET s  == Sgn(a.m) * Sgn(b.m)
        x  == Abs(a.m)
        d  == Abs(b.m)
        n  == IF x >= d THEN 7 ELSE 8
        qr == DivDigits(x \div d, x % d, d, n)
        q  == qr[1]
        r  == qr[2]
    IN  Normalize(s * RoundRem(q, r, d), a.e - b.e - n)

\* a + b: the operand of smaller exponent is shifted to one guard digit
\* below the other's last place, and the sum is rounded.
FAdd(a, b) ==
    IF a.m = 0 THEN b
    ELSE IF b.m = 0 THEN a
    ELSE
    LET hi == IF a.e >= b.e THEN a ELSE b
        lo == IF a.e >= b.e THEN b ELSE a
        d  == hi.e - lo.e
    IN  IF d >= 10 THEN hi
        ELSE LET B == IF d = 0 THEN lo.m * 10
                      ELSE IF d = 1 THEN lo.m
                      ELSE RoundHalfEven(lo.m, Pow10[d - 1])
             IN  Normalize(hi.m * 10 + B, hi.e - 1)

FSub(a, b) == FAdd(a, FNeg(b))

FLt(a, b) == FSub(a, b).m < 0

FLe(a, b) == FSub(a, b).m <= 0

\* The largest r with r * r <= s, by bisection on lo..hi.
RECURSIVE ISqrt(_, _, _)
ISqrt(s, lo, hi) ==
    IF lo >= hi THEN lo
    ELSE LET mid == (lo + hi + 1) \div 2
         IN  IF mid * mid <= s THEN ISqrt(s, mid, hi) ELSE ISqrt(s, lo, mid - 1)

Half == Normalize(5, -1)

\* math.sqrt(a) for a >= 0: the integer root of the mantissa (made of even
\* exponent), refined by two Newton steps.
FSqrt(a) ==
    IF a.m = 0 THEN Zero
    ELSE
    LET odd == a.e % 2 = 1
        s   == IF odd THEN a.m * 10 ELSE a.m
        e2  == (IF odd THEN a.e - 1 ELSE a.e) \div 2
        x0  == Normalize(ISqrt(s, 1, 31623), e2)
        x1  == FMul(Half, FAdd(x0, FDiv(a, x0)))
    IN  FMul(Half, FAdd(x1, FDiv(a, x1)))

\* int(a) for a >= 0: the integer part.
FTrunc(a) ==
    IF a.e >= 0 THEN a.m * (IF a.e = 0 THEN 1 ELSE Pow10[a.e])
    ELSE IF a.e < -8 THEN 0
    ELSE a.m \div Pow10[-a.e]

\* Python's round(a): the nearest int, ties to even.
FRound(a) ==
    IF a.e >= 0 THEN a.m * (IF a.e = 0 THEN 1 ELSE Pow10[a.e])
    ELSE IF a.e < -8 THEN 0
    ELSE RoundHalfEven(a.m, Pow10[-a.e])

----------------------------------------------------------------------------
(* scipy.stats.norm.  PpfTable[k + 1] is ppf((500 + k) / 1000) and         *)
(* CdfTable[i + 1] is cdf(i / 100), both in units of 10^-8.                *)

PpfTable == <<
      0, 250663, 501328, 751996, 1002668, 1253347, 1504034, 1754730, 2005437, 2256157,
      2506891, 2757641, 3008408, 3259194, 3510000, 3760829, 4011681, 4262559, 4513463, 4764396,
      5015358, 5266353, 5517380, 5768443, 6019541, 6270678, 6521854, 6773071, 7024331, 7275636,
      7526986, 7778384, 8029831, 8281329, 8532879, 8784484, 9036144, 9287861, 9539637, 9791473,
      10043372, 10295334, 10547362, 10799457, 11051620, 11303854, 11556160, 11808539, 12060993, 12313525,
      12566135, 12818825, 13071597, 13324452, 13577393, 13830421, 14083537, 14336744, 14590042, 14843434,
      15096922, 15350506, 15604189, 15857973, 16111859, 16365849, 16619944, 16874147, 17128459, 17382881,
      17637416, 17892066, 18146832, 18401715, 18656718, 18911843, 19167090, 19422463, 19677962, 19933590,
      20189348, 20445238, 20701262, 20957422, 21213720, 21470157, 21726735, 21983456, 22240323, 22497336,
      22754498, 23011810, 23269275, 23526894, 23784670, 24042603, 24300697, 24558952, 24817372, 25075957,
      25334710, 25593633, 25852728, 26111996, 26371440, 26631061, 26890862, 27150845, 27411012, 27671364,
      27931903, 28192633, 28453554, 28714669, 28975981, 29237490, 29499199, 29761110, 30023226, 30285548,
      30548079, 30810820, 31073775, 31336944, 31600330, 31863936, 32127764, 32391815, 32656093, 32920598,
      33185335, 33450304, 33715508, 33980949, 34246630, 34512553, 34778720, 35045134, 35311797, 35578711,
      35845879, 36113303, 36380986, 36648929, 36917136, 37185609, 37454350, 37723362, 37992647, 38262208,
      38532047, 38802167, 39072570, 39343259, 39614237, 39885507, 40157070, 40428929, 40701088, 40973548,
      41246313, 41519385, 41792767, 42066462, 42340472, 42614801, 42889450, 43164424, 43439724, 43715354,
      43991317, 44267614, 44544251, 44821228, 45098550, 45376219, 45654238, 45932611, 46211340, 46490429,
      46769880, 47049697, 47329883, 47610440, 47891373, 48172685, 48454378, 48736457, 49018923, 49301781,
      49585035, 49868686, 50152740, 50437199, 50722066, 51007346, 51293041, 51579156, 51865693, 52152657,
      52440051, 52727879, 53016145, 53304851, 53594003, 53883603, 54173656, 54464165, 54755135, 55046570,
      55338472, 55630847, 55923698, 56217029, 56510845, 56805150, 57099947, 57395242, 57691038, 57987339,
      58284151, 58581477, 58879321, 59177689, 59476585, 59776013, 60075977, 60376484, 60677536, 60979140,
      61281299, 61584019, 61887304, 62191160, 62495590, 62800601, 63106198, 63412385, 63719167, 64026551,
      64334541, 64643142, 64952360, 65262200, 65572668, 65883769, 66195510, 66507895, 66820930, 67134621,
      67448975, 67763996, 68079692, 68396067, 68713129, 69030882, 69349335, 69668492, 69988360, 70308946,
      70630256, 70952297, 71275076, 71598599, 71922873, 72247905, 72573702, 72900272, 73227620, 73555756,
      73884685, 74214415, 74544955, 74876311, 75208491, 75541503, 75875354, 76210054, 76545610, 76882029,
      77219321, 77557494, 77896556, 78236516, 78577383, 78919165, 79261872, 79605512, 79950094, 80295629,
      80642125, 80989591, 81338039, 81687477, 82037915, 82389363, 82741832, 83095332, 83449873, 83805467,
      84162123, 84519854, 84878669, 85238580, 85599599, 85961736, 86325005, 86689417, 87054983, 87421716,
      87789630, 88158735, 88529045, 88900573, 89273332, 89647336, 90022599, 90399133, 90776953, 91156074,
      91536509, 91918274, 92301383, 92685851, 93071695, 93458929, 93847570, 94237633, 94629136, 95022094,
      95416525, 95812447, 96209875, 96608830, 97009328, 97411388, 97815029, 98220270, 98627130, 99035629,
      99445788, 99857627, 100271167, 100686428, 101103433, 101522203, 101942762, 102365131, 102789335, 103215396,
      103643339, 104073189, 104504970, 104938708, 105374430, 105812162, 106251930, 106693763, 107137689, 107583736,
      108031934, 108482313, 108934903, 109389735, 109846842, 110306256, 110768009, 111232137, 111698673, 112167653,
      112639113, 113113090, 113589622, 114068748, 114550506, 115034938, 115522085, 116011988, 116504692, 117000241,
      117498679, 118000054, 118504413, 119011804, 119522278, 120035886, 120552680, 121072713, 121596042, 122122722,
      122652812, 123186371, 123723460, 124264142, 124808481, 125356544, 125908398, 126464114, 127023762, 127587418,
      128155157, 128727056, 129303198, 129883663, 130468539, 131057911, 131651872, 132250514, 132853933, 133462229,
      134075503, 134693863, 135317415, 135946275, 136580556, 137220381, 137865873, 138517161, 139174378, 139837662,
      140507156, 141183008, 141865371, 142554404, 143250272, 143953147, 144663207, 145380636, 146105627, 146838380,
      147579103, 148328013, 149085336, 149851307, 150626172, 151410189, 152203624, 153006759, 153819886, 154643312,
      155477359, 156322365, 157178682, 158046682, 158926756, 159819314, 160724789, 161643637, 162576339, 163523402,
      164485363, 165462790, 166456286, 167466489, 168494077, 169539771, 170604340, 171688602, 172793432, 173919767,
      175068607, 176241030, 177438191, 178661337, 179911811, 181191067, 182500682, 183842367, 185217986, 186629574,
      188079361, 189569792, 191103565, 192683657, 194313375, 195996398, 197736843, 199539331, 201409081, 203352015,
      205374891, 207485473, 209692743, 212007169, 214441062, 217009038, 219728638, 222621177, 225712924, 229036788,
      232634787, 236561813, 240891555, 245726339, 251214433, 257582930, 265206981, 274778139, 287816174, 309023231
    >>

CdfTable == <<
      50000000, 50398936, 50797831, 51196647, 51595344, 51993881, 52392218, 52790317, 53188137, 53585639,
      53982784, 54379531, 54775843, 55171679, 55567000, 55961769, 56355946, 56749493, 57142372, 57534543,
      57925971, 58316616, 58706442, 59095412, 59483487, 59870633, 60256811, 60641987, 61026125, 61409188,
      61791142, 62171952, 62551583, 62930002, 63307174, 63683065, 64057643, 64430875, 64802729, 65173173,
      65542174, 65909703, 66275727, 66640218, 67003145, 67364478, 67724189, 68082249, 68438630, 68793305,
      69146246, 69497427, 69846821, 70194403, 70540148, 70884031, 71226028, 71566115, 71904269, 72240468,
      72574688, 72906910, 73237111, 73565271, 73891370, 74215389, 74537309, 74857110, 75174777, 75490291,
      75803635, 76114793, 76423750, 76730491, 77035000, 77337265, 77637271, 77935005, 78230456, 78523612,
      78814460, 79102991, 79389195, 79673061, 79954581, 80233746, 80510548, 80784980, 81057035, 81326706,
      81593987, 81858875, 82121362, 82381446, 82639122, 82894387, 83147239, 83397675, 83645694, 83891294,
      84134475, 84375235, 84613577, 84849500, 85083005, 85314094, 85542770, 85769035, 85992891, 86214343,
      86433394, 86650049, 86864312, 87076189, 87285685, 87492806, 87697560, 87899952, 88099989, 88297680,
      88493033, 88686055, 88876756, 89065145, 89251230, 89435023, 89616532, 89795768, 89972743, 90147467,
      90319952, 90490208, 90658249, 90824086, 90987733, 91149201, 91308504, 91465655, 91620668, 91773556,
      91924334, 92073016, 92219616, 92364149, 92506630, 92647074, 92785496, 92921912, 93056338, 93188788,
      93319280, 93447829, 93574451, 93699164, 93821982, 93942924, 94062006, 94179244, 94294657, 94408260,
      94520071, 94630107, 94738386, 94844925, 94949742, 95052853, 95154277, 95254032, 95352134, 95448602,
      95543454, 95636706, 95728378, 95818486, 95907049, 95994084, 96079610, 96163643, 96246202, 96327304,
      96406968, 96485211, 96562050, 96637503, 96711588, 96784323, 96855724, 96925809, 96994596, 97062102,
      97128344, 97193339, 97257105, 97319658, 97381016, 97441194, 97500210, 97558081, 97614824, 97670453,
      97724987, 97778441, 97830831, 97882173, 97932484, 97981778, 98030073, 98077383, 98123723, 98169110,
      98213558, 98257082, 98299698, 98341419, 98382262, 98422239, 98461367, 98499658, 98537127, 98573788,
      98609655, 98644742, 98679062, 98712628, 98745454, 98777553, 98808937, 98839621, 98869616, 98898934,
      98927589, 98955592, 98982956, 99009692, 99035813, 99061329, 99086253, 99110596, 99134368, 99157581,
      99180246, 99202374, 99223975, 99245059, 99265637, 99285719, 99305315, 99324435, 99343088, 99361285,
      99379033, 99396344, 99413226, 99429687, 99445738, 99461385, 99476639, 99491507, 99505998, 99520120,
      99533881, 99547289, 99560351, 99573076, 99585470, 99597541, 99609297, 99620744, 99631889, 99642740,
      99653303, 99663584, 99673590, 99683328, 99692804, 99702024, 99710993, 99719719, 99728206, 99736460,
      99744487, 99752293, 99759882, 99767260, 99774432, 99781404, 99788179, 99794764, 99801162, 99807379,
      99813419, 99819286, 99824984, 99830519, 99835894, 99841113, 99846180, 99851100, 99855876, 99860511,
      99865010, 99869376, 99873613, 99877723, 99881711, 99885579, 99889332, 99892971, 99896500, 99899922,
      99903240, 99906456, 99909574, 99912597, 99915526, 99918365, 99921115, 99923781, 99926362, 99928864,
      99931286, 99933633, 99935905, 99938105, 99940235, 99942297, 99944294, 99946226, 99948096, 99949906,
      99951658, 99953352, 99954991, 99956577, 99958111, 99959594, 99961029, 99962416, 99963757, 99965054,
      99966307, 99967519, 99968689, 99969821, 99970914, 99971971, 99972991, 99973977, 99974929, 99975849,
      99976737, 99977595, 99978423, 99979222, 99979994, 99980738, 99981457, 99982151, 99982820, 99983466,
      99984089, 99984690, 99985270, 99985829, 99986368, 99986888, 99987389, 99987872, 99988338, 99988787,
      99989220, 99989637, 99990039, 99990426, 99990799, 99991158, 99991504, 99991838, 99992159, 99992468,
      99992765, 99993052, 99993327, 99993593, 99993848, 99994094, 99994331, 99994558, 99994777, 99994988,
      99995190, 99995385, 99995573, 99995753, 99995926, 99996092, 99996253, 99996406, 99996554, 99996696,
      99996833, 99996964, 99997090, 99997211, 99997327, 99997439, 99997546, 99997649, 99997748, 99997843,
      99997934, 99998022, 99998106, 99998186, 99998263, 99998338, 99998409, 99998477, 99998542, 99998605,
      99998665, 99998723, 99998778, 99998832, 99998882, 99998931, 99998978, 99999023, 99999066, 99999107,
      99999146, 99999184, 99999220, 99999254, 99999288, 99999319, 99999350, 99999379, 99999407, 99999433,
      99999459, 99999483, 99999506, 99999529, 99999550, 99999571, 99999590, 99999609, 99999627, 99999644,
      99999660, 99999676, 99999691, 99999705, 99999719, 99999732, 99999744, 99999756, 99999768, 99999778,
      99999789, 99999799, 99999808, 99999817, 99999826, 99999834, 99999842, 99999849, 99999857, 99999863,
      99999870, 99999876, 99999882, 99999888, 99999893, 99999898, 99999903, 99999908, 99999912, 99999917,
      99999921, 99999925, 99999928, 99999932, 99999935, 99999938, 99999941, 99999944, 99999947, 99999950,
      99999952, 99999954, 99999957, 99999959, 99999961, 99999963, 99999965, 99999967, 99999968, 99999970,
      99999971, 99999973, 99999974, 99999975, 99999977, 99999978, 99999979, 99999980, 99999981, 99999982,
      99999983, 99999984, 99999985, 99999986, 99999986, 99999987, 99999988, 99999988, 99999989, 99999989,
      99999990, 99999991, 99999991, 99999992, 99999992, 99999992, 99999993, 99999993, 99999994, 99999994,
      99999994, 99999995, 99999995, 99999995, 99999995, 99999996, 99999996, 99999996, 99999996, 99999996,
      99999997, 99999997, 99999997, 99999997, 99999997, 99999997, 99999998, 99999998, 99999998, 99999998,
      99999998, 99999998, 99999998, 99999998, 99999998, 99999999, 99999999, 99999999, 99999999, 99999999,
      99999999, 99999999, 99999999, 99999999, 99999999, 99999999, 99999999, 99999999, 99999999, 99999999,
      99999999, 99999999, 99999999, 99999999, 100000000, 100000000, 100000000, 100000000, 100000000, 100000000,
      100000000, 100000000, 100000000, 100000000, 100000000, 100000000, 100000000, 100000000, 100000000, 100000000,
      100000000, 100000000, 100000000, 100000000, 100000000, 100000000, 100000000, 100000000, 100000000, 100000000,
      100000000, 100000000
    >>

\* What stats.norm.ppf(q) is: nan outside [0, 1], infinite at 0 and 1.
ppf_class(q) ==
    IF q.m < 0 \/ FLt(One, q) THEN "nan"
    ELSE IF q.m = 0 THEN "-inf"
    ELSE IF q = One THEN "inf"
    ELSE "finite"

\* stats.norm.ppf(q) for 0 < q < 1, q taken to the nearest thousandth.
norm_ppf(q) ==
    LET key == FRound(FMul(q, FromInt(1000)))
    IN  IF key >= 500 THEN Normalize(PpfTable[key - 499], -8)
        ELSE FNeg(Normalize(PpfTable[501 - key], -8))

\* stats.norm.cdf(x): linear interpolation in CdfTable; 1 (or 0) from 6 on.
norm_cdf(x) ==
    LET ax == [m |-> Abs(x.m), e |-> x.e]
        xi == FRound(FMul(ax, FromInt(100000)))
        i  == xi \div 1000
        f  == xi % 1000
        v  == IF FLe(FromInt(6), ax) THEN Pow10[8]
              ELSE CdfTable[i + 1]
                     + RoundHalfEven((CdfTable[i + 2] - CdfTable[i + 1]) * f, 1000)
    IN  IF x.m >= 0 THEN Normalize(v, -8) ELSE Normalize(Pow10[8] - v, -8)

----------------------------------------------------------------------------
(* The formula engine.                                                     *)

p_pooled == Normalize(5, -1)

\* The standard error of lines 22 and 45.
standard_error(n1, n2) ==
    FSqrt(FMul(FMul(p_pooled, FSub(One, p_pooled)),
               FAdd(FDiv(One, FromInt(n1)), FDiv(One, FromInt(n2)))))

\* int(n_total * treatment_pct / 100) for a whole treatment_pct: the true
\* division's quotient truncated (exact for ints of this size).
treatment_group(n_total, treatment_pct) == (n_total * treatment_pct) \div 100

calculate_power(n_total, treatment_pct, mde, alpha) ==
    LET n1 == treatment_group(n_total, treatment_pct)
        n2 == n_total - n1
    IN  IF n1 = 0 \/ n2 = 0 THEN [power |-> Zero, n1 |-> n1, n2 |-> n2]
        ELSE
        LET se      == standard_error(n1, n2)
            z_alpha == norm_ppf(FSub(One, FDiv(alpha, FromInt(2))))
            power   == FAdd(FSub(One, norm_cdf(FSub(z_alpha, FDiv(mde, se)))),
                            norm_cdf(FSub(FNeg(z_alpha), FDiv(mde, se))))
        IN  [power |-> power, n1 |-> n1, n2 |-> n2]

\* The sentinel of calculate_power, returned by calculate_mde too.
mde_sentinel_zero == Zero

\* What line 39 returns as the mde of a design with an empty group.
mde_sentinel == One

calculate_mde(n_total, treatment_pct, power, alpha) ==
    LET n1 == treatment_group(n_total, treatment_pct)
        n2 == n_total - n1
    IN  IF n1 = 0 \/ n2 = 0 THEN [mde |-> mde_sentinel, n1 |-> n1, n2 |-> n2]
        ELSE
        LET se      == standard_error(n1, n2)
            z_alpha == norm_ppf(FSub(One, FDiv(alpha, FromInt(2))))
            z_beta  == norm_ppf(power)
        IN  [mde |-> FMul(FAdd(z_alpha, z_beta), se), n1 |-> n1, n2 |-> n2]

\* The exception a call leaves with instead of a result.
Raise(exc, line) == [raised |-> TRUE, exc |-> exc, line |-> line,
                     n_total |-> 0, n1 |-> 0, n2 |-> 0]

\* The total kept as the rounded real-valued total, not recomputed.
rounded_groups_closed_form(n_total, treatment_prop) ==
    LET n1 == FRound(FMul(n_total, treatment_prop))
        n2 == FRound(FMul(n_total, FSub(One, treatment_prop)))
    IN  [raised |-> FALSE, exc |-> "", line |-> 0,
         n_total |-> FRound(n_total), n1 |-> n1, n2 |-> n2]

\* The treatment group truncated, as int() does in calculate_power.
rounded_groups_truncating(n_total, treatment_prop) ==
    LET n1 == FTrunc(FMul(n_total, treatment_prop))
        n2 == FRound(FMul(n_total, FSub(One, treatment_prop)))
    IN  [raised |-> FALSE, exc |-> "", line |-> 0,
         n_total |-> n1 + n2, n1 |-> n1, n2 |-> n2]

\* The group sizes of lines 77-79 from the real-valued total of line 74.
rounded_groups(n_total, treatment_prop) ==
    LET n1 == FRound(FMul(n_total, treatment_prop))
        n2 == FRound(FMul(n_total, FSub(One, treatment_prop)))
    IN  [raised |-> FALSE, exc |-> "", line |-> 0,
         n_total |-> n1 + n2, n1 |-> n1, n2 |-> n2]

\* The critical values subtracted where line 71 adds them.
n_total_required_minus(mde, power, treatment_pct, alpha) ==
    LET z_alpha        == norm_ppf(FSub(One, FDiv(alpha, FromInt(2))))
        z_beta         == norm_ppf(power)
        treatment_prop == FDiv(FromInt(treatment_pct), FromInt(100))
        term1          == FMul(FSub(z_alpha, z_beta), FSub(z_alpha, z_beta))
        term2          == FMul(p_pooled, FSub(One, p_pooled))
        term3          == FDiv(One, FMul(treatment_prop, FSub(One, treatment_prop)))
    IN  FDiv(FMul(FMul(term1, term2), term3), FMul(mde, mde))

\* Lines 60-74 for finite critical values, a non-zero denominator and a
\* non-zero mde: the real-valued total sample size.
n_total_required(mde, power, treatment_pct, alpha) ==
    LET z_alpha        == norm_ppf(FSub(One, FDiv(alpha, FromInt(2))))
        z_beta         == norm_ppf(power)
        treatment_prop == FDiv(FromInt(treatment_pct), FromInt(100))
        term1          == FMul(FAdd(z_alpha, z_beta), FAdd(z_alpha, z_beta))
        term2          == FMul(p_pooled, FSub(One, p_pooled))
        term3          == FDiv(One, FMul(treatment_prop, FSub(One, treatment_prop)))
    IN  FDiv(FMul(FMul(term1, term2), term3), FMul(mde, mde))

\* The function has no check of its arguments.  Line 73 divides by zero at
\* a treatment proportion of 0 or 1; an infinite or nan critical value, or
\* a zero mde, makes the total of line 74 infinite or nan, which round()
\* at line 77 refuses.  Every other argument is computed with.
calculate_sample_size(mde, power, treatment_pct, alpha) ==
    LET q_alpha        == FSub(One, FDiv(alpha, FromInt(2)))
        c_alpha        == ppf_class(q_alpha)
        c_beta         == ppf_class(power)
        treatment_prop == FDiv(FromInt(treatment_pct), FromInt(100))
    IN  IF FMul(treatment_prop, FSub(One, treatment_prop)).m = 0
        THEN Raise("ZeroDivisionError", 73)
        ELSE IF c_alpha = "nan" \/ c_beta = "nan"
        THEN Raise("ValueError", 77)
        ELSE IF c_alpha # "finite" /\ c_beta # "finite" /\ c_alpha # c_beta
        THEN Raise("ValueError", 77)
        ELSE IF c_alpha # "finite" \/ c_beta # "finite"
        THEN Raise("OverflowError", 77)
        ELSE IF mde.m = 0
        THEN IF FAdd(norm_ppf(q_alpha), norm_ppf(power)).m = 0
             THEN Raise("ValueError", 77)
             ELSE Raise("OverflowError", 77)
        ELSE rounded_groups(n_total_required(mde, power, treatment_pct, alpha),
                            treatment_prop)

----------------------------------------------------------------------------
(* The allocation sweep and the optimal point main reports from it.        *)

RangeStart == 5
RangeStop == 96
RangeStep == 5

\* range(5, 95, 5): the stop one short.
treatment_percentages_short ==
    [i \in 1..((RangeStop - 1 - RangeStart + RangeStep - 1) \div RangeStep)
        |-> RangeStart + (i - 1) * RangeStep]

\* list(range(5, 96, 5))
treatment_percentages ==
    [i \in 1..((RangeStop - RangeStart + RangeStep - 1) \div RangeStep)
        |-> RangeStart + (i - 1) * RangeStep]

Hundred == FromInt(100)

\* The row lines 95-101 and 110-116 append for treatment percentage tp.
comparison_row(calculation_type, fixed_params, tp) ==
    IF calculation_type = "Sample Size"
    THEN LET r == calculate_sample_size(FDiv(fixed_params.mde, Hundred),
                                        fixed_params.power, tp, fixed_params.alpha)
         IN  [treatment_pct |-> tp, sample_size |-> r.n_total,
              treatment_size |-> r.n1, control_size |-> r.n2]
    ELSE LET r == calculate_mde(fixed_params.n_total, tp,
                                fixed_params.power, fixed_params.alpha)
         IN  [treatment_pct |-> tp, mde |-> FMul(r.mde, Hundred),
              treatment_size |-> r.n1, control_size |-> r.n2]

\* results after the loop's first k rounds.
RECURSIVE comparison_rows(_, _, _)
comparison_rows(calculation_type, fixed_params, k) ==
    IF k = 0 THEN << >>
    ELSE Append(comparison_rows(calculation_type, fixed_params, k - 1),
                comparison_row(calculation_type, fixed_params,
                               treatment_percentages[k]))

generate_treatment_comparison_data(calculation_type, fixed_params) ==
    comparison_rows(calculation_type, fixed_params, Len(treatment_percentages))

\* The order of a column's values: ints in sample_size, floats in mde.
less(column, a, b) == IF column = "sample_size" THEN a < b ELSE FLt(a, b)

\* The last row holding the minimum, not the first.
idxmin_last(data, column) ==
    CHOOSE i \in DOMAIN data :
        /\ \A j \in DOMAIN data : ~less(column, data[j][column], data[i][column])
        /\ \A j \in (i + 1)..Len(data) : less(column, data[i][column], data[j][column])

\* Series.idxmin: the row holding the column's minimum, the first such row
\* when several hold it.
idxmin(data, column) ==
    CHOOSE i \in DOMAIN data :
        /\ \A j \in DOMAIN data : ~less(column, data[j][column], data[i][column])
        /\ \A j \in 1..(i - 1) : less(column, data[i][column], data[j][column])

----------------------------------------------------------------------------
(* A call: inp holds the function and its arguments, ret what it returned. *)
(* Arguments are whole numbers of steps: treatment_pct in percent, mde in  *)
(* steps of 0.0001 (0.01 percentage points), power and alpha in steps of   *)
(* 0.01.                                                                   *)

MaxNTotal == 12

NTotals == (1..MaxNTotal) \cup {19, 20, 99, 100, 2000}
Pcts == {1, 5, 30, 50, 70, 95, 99}
Mdes == {100, 1000, 2000}
Powers == {1, 5, 50, 80, 99}
Alphas == {1, 5, 10}

\* Arguments outside the domain of calculate_sample_size, with those inside.
AnyMdes == Mdes \cup {-100, 0}
AnyPcts == Pcts \cup {-5, 0, 100, 105}
AnyPowers == Powers \cup {-10, 0, 100, 120}
AnyAlphas == Alphas \cup {-5, 0, 100, 150, 200}

PowerCalls == [fn : {"calculate_power"}, n_total : NTotals, treatment_pct : Pcts,
               mde : Mdes, alpha : Alphas]

MdeCalls == [fn : {"calculate_mde"}, n_total : NTotals, treatment_pct : Pcts,
             power : Powers, alpha : Alphas]

SampleSizeCalls == [fn : {"calculate_sample_size"}, mde : AnyMdes, power : AnyPowers,
                    treatment_pct : AnyPcts, alpha : AnyAlphas]

AnalysisCalls ==
    [fn : {"generate_treatment_comparison_data"}, calculation_type : {"Sample Size"},
     mde : Mdes, n_total : {0}, power : Powers, alpha : Alphas]
    \cup
    [fn : {"generate_treatment_comparison_data"}, calculation_type : {"MDE"},
     mde : {0}, n_total : NTotals, power : Powers, alpha : Alphas]

\* The floats the steps stand for.
Proportion(t) == FDiv(FromInt(t), FromInt(10000))
Probability(t) == FDiv(FromInt(t), Hundred)
PercentagePoints(t) == FDiv(FromInt(t), Hundred)

NoCall == [fn |-> "none"]

Init == /\ inp \in PowerCalls \cup MdeCalls \cup SampleSizeCalls \cup AnalysisCalls
        /\ ret = NoCall

CalculatePower ==
    /\ inp.fn = "calculate_power"
    /\ ret' = [fn |-> inp.fn,
               out |-> calculate_power(inp.n_total, inp.treatment_pct,
                                       Proportion(inp.mde), Probability(inp.alpha))]
    /\ UNCHANGED inp

CalculateMde ==
    /\ inp.fn = "calculate_mde"
    /\ ret' = [fn |-> inp.fn,
               out |-> calculate_mde(inp.n_total, inp.treatment_pct,
                                     Probability(inp.power), Probability(inp.alpha))]
    /\ UNCHANGED inp

CalculateSampleSize ==
    /\ inp.fn = "calculate_sample_size"
    /\ ret' = [fn |-> inp.fn,
               out |-> calculate_sample_size(Proportion(inp.mde), Probability(inp.power),
                                             inp.treatment_pct, Probability(inp.alpha))]
    /\ UNCHANGED inp

\* The analysis tab of main: fixed_params, the sweep, and the optimal point
\* by idxmin over the swept column.
analysis(calculation_type, fixed_params) ==
    LET column == IF calculation_type = "Sample Size" THEN "sample_size" ELSE "mde"
    IN  CHOOSE r \in
          { [comparison_data |-> d, min_idx |-> idxmin(d, column),
             opt_treatment |-> d[idxmin(d, column)].treatment_pct,
             opt_value |-> d[idxmin(d, column)][column]] :
            d \in {generate_treatment_comparison_data(calculation_type, fixed_params)} }
          : TRUE

TreatmentAnalysis ==
    /\ inp.fn = "generate_treatment_comparison_data"
    /\ ret' = [fn |-> inp.fn,
               out |-> analysis(inp.calculation_type,
                                [mde |-> PercentagePoints(inp.mde),
                                 power |-> Probability(inp.power),
                                 alpha |-> Probability(inp.alpha),
                                 n_total |-> inp.n_total])]
    /\ UNCHANGED inp

Next == CalculatePower \/ CalculateMde \/ CalculateSampleSize \/ TreatmentAnalysis

Spec == Init /\ [][Next]_vars

----------------------------------------------------------------------------
(* The claims.                                                             *)

\* The arguments the interface allows: n_total > 0, treatment_pct in
\* [1, 99], mde > 0, power and alpha in (0, 1).
ValidSampleSizeArgs ==
    /\ inp.mde > 0
    /\ inp.power > 0 /\ inp.power < 100
    /\ inp.treatment_pct >= 1 /\ inp.treatment_pct <= 99
    /\ inp.alpha > 0 /\ inp.alpha < 100

Returned(fn) == ret.fn = fn

SampleSizeReturned ==
    Returned("calculate_sample_size") /\ ValidSampleSizeArgs /\ ~ret.out.raised

\* C1: the group sizes every formula returns are non-negative integers
\* that sum to the total: to the n_total argument of calculate_power and
\* calculate_mde, to the returned n_total of calculate_sample_size.
GroupSizesSumToTotal ==
    /\ Returned("calculate_power") \/ Returned("calculate_mde") =>
          /\ ret.out.n1 \in Nat /\ ret.out.n2 \in Nat
          /\ ret.out.n1 + ret.out.n2 = inp.n_total
    /\ SampleSizeReturned =>
          /\ ret.out.n1 \in Nat /\ ret.out.n2 \in Nat
          /\ ret.out.n1 + ret.out.n2 = ret.out.n_total

\* A sample size whose returned total is not the rounded real-valued total.
GroupSizesWitness ==
    /\ SampleSizeReturned
    /\ ret.out.n1 > 0 /\ ret.out.n2 > 0
    /\ ret.out.n_total #
          FRound(n_total_required(Proportion(inp.mde), Probability(inp.power),
                                  inp.treatment_pct, Probability(inp.alpha)))

\* |a - b| <= 0.01
WithinTolerance(a, b) ==
    /\ FLe(FSub(a, b), Normalize(1, -2))
    /\ FLe(FSub(b, a), Normalize(1, -2))

\* C2: the power calculate_power returns for the total calculate_sample_size
\* returned, at the same percentage, mde and alpha, is within 0.01 of the
\* power the sample size was computed for.
RoundTripConsistency ==
    SampleSizeReturned =>
        WithinTolerance(
            calculate_power(ret.out.n_total, inp.treatment_pct,
                            Proportion(inp.mde), Probability(inp.alpha)).power,
            Probability(inp.power))

Degenerate(n_total, treatment_pct) ==
    \/ (n_total * treatment_pct) \div 100 = 0
    \/ n_total - (n_total * treatment_pct) \div 100 = 0

\* C3: with an empty group calculate_power returns power 0 and
\* calculate_mde the sentinel 1, with the group sizes; and
\* calculate_power(20, 1, 0.1, 0.05) returns (0, 0, 20).
DegenerateDesignSignalled ==
    /\ Returned("calculate_power") /\ Degenerate(inp.n_total, inp.treatment_pct) =>
          ret.out = [power |-> Zero,
                     n1 |-> (inp.n_total * inp.treatment_pct) \div 100,
                     n2 |-> inp.n_total - (inp.n_total * inp.treatment_pct) \div 100]
    /\ Returned("calculate_mde") /\ Degenerate(inp.n_total, inp.treatment_pct) =>
          ret.out = [mde |-> One,
                     n1 |-> (inp.n_total * inp.treatment_pct) \div 100,
                     n2 |-> inp.n_total - (inp.n_total * inp.treatment_pct) \div 100]
    /\ Returned("calculate_power") /\ inp.n_total = 20 /\ inp.treatment_pct = 1
          /\ inp.mde = 1000 /\ inp.alpha = 5 =>
          ret.out = [power |-> Zero, n1 |-> 0, n2 |-> 20]

DegenerateWitness ==
    /\ Returned("calculate_power") /\ inp.n_total = 20 /\ inp.treatment_pct = 1
    /\ inp.mde = 1000 /\ inp.alpha = 5
    /\ ret.out.n1 = 0

\* C4: calculate_sample_size raises, and returns no result, whenever an
\* argument is outside its domain.
DomainErrorRaised ==
    Returned("calculate_sample_size") /\ ~ValidSampleSizeArgs => ret.out.raised

AnalysisReturned(calculation_type) ==
    Returned("generate_treatment_comparison_data")
    /\ inp.calculation_type = calculation_type

\* C5: the sweep returns 19 points, at 5, 10, ..., 95 percent in ascending
\* order, each the formula's result at that percentage; for n_total = 2000,
\* power = 0.8, alpha = 0.05 in MDE mode every mde is positive and the
\* optimal point is at 50 percent.
SweepGrid ==
    Returned("generate_treatment_comparison_data") =>
        LET data == ret.out.comparison_data
        IN  /\ Len(data) = 19
            /\ \A i \in 1..Len(data) :
                  /\ data[i].treatment_pct = 5 * i
                  /\ inp.calculation_type = "MDE" =>
                        LET r == calculate_mde(inp.n_total, 5 * i, Probability(inp.power),
                                               Probability(inp.alpha))
                        IN  /\ data[i].mde = FMul(r.mde, Hundred)
                            /\ data[i].treatment_size = r.n1
                            /\ data[i].control_size = r.n2
                  /\ inp.calculation_type = "Sample Size" =>
                        LET r == calculate_sample_size(Proportion(inp.mde),
                                                       Probability(inp.power), 5 * i,
                                                       Probability(inp.alpha))
                        IN  /\ data[i].sample_size = r.n_total
                            /\ data[i].treatment_size = r.n1
                            /\ data[i].control_size = r.n2
            /\ inp.calculation_type = "MDE" /\ inp.n_total = 2000
                  /\ inp.power = 80 /\ inp.alpha = 5 =>
                  /\ \A i \in 1..Len(data) : data[i].mde.m > 0
                  /\ ret.out.opt_treatment = 50

SweepGridWitness ==
    /\ AnalysisReturned("MDE")
    /\ inp.n_total = 2000 /\ inp.power = 80 /\ inp.alpha = 5
    /\ ret.out.opt_treatment = 50
    /\ ret.out.comparison_data[10].treatment_size = 1000

\* The swept column of a row, and its order.
Swept(row) == IF inp.calculation_type = "Sample Size" THEN row.sample_size ELSE row.mde
SweptLess(a, b) == IF inp.calculation_type = "Sample Size" THEN a < b ELSE FLt(a, b)

\* Row i holds the minimum of the swept column.
Minimal(data, i) == \A j \in 1..Len(data) : ~SweptLess(Swept(data[j]), Swept(data[i]))

\* C6: the optimal treatment percentage is that of a grid point whose swept
\* value no other grid point is below, and the smallest percentage among
\* the grid points holding that minimum.
StableArgmin ==
    Returned("generate_treatment_comparison_data") =>
        LET data == ret.out.comparison_data
        IN  /\ \E i \in 1..Len(data) :
                  /\ data[i].treatment_pct = ret.out.opt_treatment
                  /\ Minimal(data, i)
            /\ \A j \in 1..Len(data) :
                  Minimal(data, j) => ret.out.opt_treatment <= data[j].treatment_pct

\* A sweep whose minimum two grid points hold.
StableArgminWitness ==
    /\ Returned("generate_treatment_comparison_data")
    /\ \E i, j \in 1..Len(ret.out.comparison_data) :
          /\ i < j
          /\ Minimal(ret.out.comparison_data, i)
          /\ Minimal(ret.out.comparison_data, j)
          /\ ret.out.opt_treatment = ret.out.comparison_data[i].treatment_pct

\* C7: calculate_sample_size at 100 - p percent returns the total it
\* returns at p percent, with the two group sizes swapped.
SampleSizeSymmetry ==
    SampleSizeReturned =>
        LET mirror == calculate_sample_size(Proportion(inp.mde), Probability(inp.power),
                                            100 - inp.treatment_pct,
                                            Probability(inp.alpha))
        IN  /\ ~mirror.raised
            /\ mirror.n_total = ret.out.n_total
            /\ mirror.n1 = ret.out.n2
            /\ mirror.n2 = ret.out.n1

SampleSizeSymmetryWitness ==
    /\ SampleSizeReturned
    /\ inp.treatment_pct = 30
    /\ ret.out.n1 > 0
    /\ ret.out.n1 < ret.out.n2

\* C8: for n <= m the mde calculate_mde returns for n_total = m is at most
\* the one it returns for n_total = n, the sentinel of an empty group
\* included.
MdeNonIncreasingInNTotal ==
    Returned("calculate_mde") =>
        \A m \in NTotals :
            m >= inp.n_total =>
                FLe(calculate_mde(m, inp.treatment_pct, Probability(inp.power),
                                  Probability(inp.alpha)).mde,
                    ret.out.mde)

\* The total calculate_sample_size returns at power q, the other arguments
\* those of inp.
TotalAtPower(q) ==
    calculate_sample_size(Proportion(inp.mde), Probability(q), inp.treatment_pct,
                          Probability(inp.alpha)).n_total

\* C9, as claimed: for powers p <= q in (0, 1) the total returned for q is
\* at least the total returned for p.
SampleSizeNonDecreasingInPower ==
    SampleSizeReturned =>
        \A q \in Powers : q >= inp.power => TotalAtPower(q) >= ret.out.n_total

\* C9, amended: the same for powers p <= q with p >= alpha / 2, where
\* z_alpha + z_beta is not negative.
SampleSizeNonDecreasingAboveHalfAlpha ==
    SampleSizeReturned /\ 2 * inp.power >= inp.alpha =>
        \A q \in Powers : q >= inp.power => TotalAtPower(q) >= ret.out.n_total

SampleSizePowerWitness ==
    /\ SampleSizeReturned
    /\ 2 * inp.power >= inp.alpha
    /\ ret.out.n_total > 0
    /\ \E q \in Powers : q > inp.power /\ TotalAtPower(q) > ret.out.n_total

\* C10: in MDE mode, when some grid point has both groups non-empty, the
\* optimal point has both groups non-empty.
OptimumNotDegenerate ==
    AnalysisReturned("MDE") =>
        LET data == ret.out.comparison_data
        IN  (\E i \in 1..Len(data) :
                data[i].treatment_size > 0 /\ data[i].control_size > 0)
            => /\ data[ret.out.min_idx].treatment_size > 0
               /\ data[ret.out.min_idx].control_size > 0

====
